---- MODULE Spec2Model ----
(***************************************************************************)
(* Model of the GOCACHEPROG server of go-cache-prog (cache/server.go):     *)
(* the read loop of server.serve, the goroutines launched by               *)
(* server.asyncHandleRequest, the token channel s.sem, the wait group      *)
(* s.wg, the per-request context deadlines, the json.Decoder on stdin and  *)
(* the mutex-protected defaultWriter on stdout.                            *)
(*                                                                         *)
(* One inbound JSON value is one element of the decode log `consumed`;     *)
(* one outbound Response is two fragments of `out` (the encode step is     *)
(* not atomic), so that interleaved Responses are representable.           *)
(***************************************************************************)
EXTENDS Naturals, Integers, Sequences, FiniteSets, TLC

\* ---------------------------------------------------------------- bounds
\* Number of top-level inbound messages of a session that the model follows
\* (the body value of a put is not counted).
MaxMsgs == 2
\* Number of get/put operations launched in a session that the model follows.
MaxOps == 2

\* ------------------------------------------------------------- constants
CmdGet == "get"
CmdPut == "put"
CmdClose == "close"
\* A command kind outside the protocol (spec scenario 5).
CmdOther == "frobnicate"

Cmds == {CmdGet, CmdPut, CmdClose, CmdOther}

\* ServeMux.allowedCommands
allowedCommands == {CmdGet, CmdPut, CmdClose}

\* Owner value of an unlocked sync.Mutex.
NoOwner == -1
\* Writer identity of the read loop (goroutines are 1, 2, ...).
LoopW == 0

\* The BodySize values of the put requests offered to the server: no body,
\* and a body.
BodySizes == {0, 1}

\* The limits passed to WithConcurrency.
Concurrencies == {1, 2}

\* The registrations made before Serve is called: a get handler only, and
\* handlers for all three kinds (ServeMux.m after the calls of HandleFunc).
Registries == {{CmdGet}, allowedCommands}

\* Inbound JSON values: a Request object, a JSON string, bytes that are
\* not JSON (or the end of the stream).
ObjVal(id, cmd, size) == [kind |-> "obj", id |-> id, cmd |-> cmd, size |-> size]
StrVal == [kind |-> "str", id |-> 0, cmd |-> "", size |-> 0]
BadVal == [kind |-> "bad", id |-> 0, cmd |-> "", size |-> 0]
\* No value: the Decoder returned its stored error without reading.
NoVal == [kind |-> "none", id |-> 0, cmd |-> "", size |-> 0]

VARIABLES
    pc,        \* position of the goroutine running server.serve
    m,         \* ServeMux.m: command kinds with a registered handler
    semCap,    \* cap(s.sem)
    sem,       \* len(s.sem): tokens currently in the channel
    wg,        \* counter of s.wg
    ops,       \* goroutines launched by asyncHandleRequest
    mu,        \* owner of defaultWriter.mu
    out,       \* fragments written to stdout
    consumed,  \* log of the Decode calls on stdin
    curCtx,    \* state of the ctx created at the top of the loop
    cur,       \* the Request the loop is handling
    lw,        \* the Response the loop is writing, and where it goes next
    decErr,    \* json.Decoder's stored (sticky) error
    result     \* return value of serve

serverVars == <<pc, m, semCap, sem, wg, ops, mu, out, consumed, curCtx, cur,
                lw, decErr, result>>

\* State of the parts of the program that are followed in specifications of
\* their own (the server's session leaves them alone).
VARIABLES
    middleware,  \* ServeMux.middleware
    lastReg,     \* the last call of ServeMux.HandleFunc and how it ended
    trace,       \* the last dispatch of handleRequest and what it ran
    reg,         \* the goroutines using the registry, and where each is
    callers,     \* the goroutines calling defaultWriter.WriteResponse
    encErr,      \* json.Encoder's stored (sticky) write error
    logged,      \* lines written with log.Printf by WriteResponse
    files,       \* the files under LocalDiskCacheHandler.cacheDir
    calls        \* the invocations of HandleGet and HandlePut

muxVars == <<middleware, lastReg, trace, reg>>
writerVars == <<callers, encErr, logged>>
diskVars == <<files, calls>>

sideVars == <<muxVars, writerVars, diskVars>>

\* The server's variables other than the registry, the writer's mutex and
\* the outbound stream.
serverRest == <<pc, semCap, sem, wg, ops, consumed, curCtx, cur, lw, decErr,
                result>>

vars == <<serverVars, sideVars>>

NoWrite == [rid |-> 0, kind |-> "", known |-> {}, next |-> ""]

OpIds == 1..Len(ops)

\* ------------------------------------------------------------ the writer

\* One fragment of an encoded Response: part "b" opens it, "e" ends it.
Frag(rid, kind, known, w, part) ==
    [rid |-> rid, kind |-> kind, known |-> known, w |-> w, part |-> part]

\* Faulty variant: a writer that encodes without taking the lock.
MuFreeNoLock == TRUE
\* defaultWriter.WriteResponse, w.mu.Lock(): the mutex can be taken.
MuFree == mu = NoOwner

\* Faulty variant: the announcement lists every allowed kind.
knownCommandsAllowed == allowedCommands
\* ServeMux.knownCommands
knownCommands == m

\* ------------------------------------------------------------------ Init

NoReg == [cmd |-> "", panicked |-> FALSE, before |-> {}]
NoDispatch == [cmd |-> "", mws |-> <<>>, events |-> <<>>]

\* Goroutines that use the registry in the registry's locking specification.
RegIds == {1, 2}

\* A goroutine that is in none of the registry's functions.
NoUse == [pc |-> "idle", arg |-> <<>>, old |-> <<>>, found |-> FALSE,
          raced |-> FALSE, n |-> 0]

\* The registry as the package leaves it: no middleware, nothing dispatched,
\* nobody inside one of its functions.
MuxIdle ==
    /\ middleware = <<>>
    /\ lastReg = NoReg
    /\ trace = NoDispatch
    /\ reg = [t \in RegIds |-> NoUse]

\* Goroutines that share the writer in the writer's specification.
WriterIds == {1, 2}

NoCall == [pc |-> "idle", rid |-> 0, fit |-> TRUE, err1 |-> FALSE, err2 |-> FALSE,
           n |-> 0]

\* Nobody is writing; the Encoder has met no write error.
WriterIdle ==
    /\ callers = [c \in WriterIds |-> NoCall]
    /\ encErr = FALSE
    /\ logged = <<>>

\* An empty cache directory and no handler invoked.
DiskIdle ==
    /\ files = [q \in {} |-> <<>>]
    /\ calls = <<>>

SideIdle ==
    /\ MuxIdle
    /\ WriterIdle
    /\ DiskIdle

Init ==
    /\ pc = "setup"
    /\ m \in Registries
    /\ semCap \in Concurrencies
    /\ sem = 0
    /\ wg = 0
    /\ ops = <<>>
    /\ mu = NoOwner
    /\ out = <<>>
    /\ consumed = <<>>
    /\ curCtx = "live"
    /\ cur = NoVal
    /\ lw = NoWrite
    /\ decErr = FALSE
    /\ result = "none"
    /\ SideIdle

\* --------------------------------------------------- registry and startup

\* The loop hands a Response to s.writer.WriteResponse and continues at
\* `next` when the write is finished.
LoopWrite(rid, kind, known, next) ==
    /\ pc' = "lwrite"
    /\ lw' = [rid |-> rid, kind |-> kind, known |-> known, next |-> next]

\* Serve -> server.serve -> server.ack: the announcement is built from
\* knownCommands() and handed to the writer.
Serve ==
    /\ UNCHANGED sideVars
    /\ pc = "setup"
    /\ LoopWrite(0, "ack", knownCommands, "read")
    /\ UNCHANGED <<m, semCap, sem, wg, ops, mu, out, consumed, curCtx, cur,
                   decErr, result>>

\* defaultWriter.WriteResponse called by the loop: lock, start encoding.
LoopWriteBegin ==
    /\ UNCHANGED sideVars
    /\ pc = "lwrite"
    /\ MuFree
    /\ mu' = LoopW
    /\ out' = Append(out, Frag(lw.rid, lw.kind, lw.known, LoopW, "b"))
    /\ pc' = "lwend"
    /\ UNCHANGED <<m, semCap, sem, wg, ops, consumed, curCtx, cur, lw,
                   decErr, result>>

\* ... finish encoding, unlock, and go on in serve: back to the top of the
\* loop (cancel(), then a fresh context.WithTimeout) or return nil after the
\* close handler.
LoopWriteEnd ==
    /\ UNCHANGED sideVars
    /\ pc = "lwend"
    /\ out' = Append(out, Frag(lw.rid, lw.kind, lw.known, LoopW, "e"))
    /\ mu' = NoOwner
    /\ pc' = lw.next
    /\ lw' = NoWrite
    /\ curCtx' = "live"
    /\ cur' = NoVal
    /\ result' = IF lw.next = "done" THEN "nil" ELSE result
    /\ UNCHANGED <<m, semCap, sem, wg, ops, consumed, decErr>>

\* ---------------------------------------------------------- the read loop

\* The deadline of the context created at line 76 passes while the loop is
\* blocked in Decode.
ExpireCur ==
    /\ UNCHANGED sideVars
    /\ pc \in {"read", "body"}
    /\ curCtx = "live"
    /\ curCtx' = "expired"
    /\ UNCHANGED <<pc, m, semCap, sem, wg, ops, mu, out, consumed, cur, lw,
                   decErr, result>>

Log(val, as, ok) == [val |-> val, as |-> as, ok |-> ok]

\* Decode calls made at the top of the loop so far.
TopReads == {k \in DOMAIN consumed : consumed[k].as = "req"}

CanRead == Cardinality(TopReads) < MaxMsgs

\* Largest number of Decode calls: every message may be a put with a body.
MaxLog == 2 * MaxMsgs

CanLaunch == Len(ops) < MaxOps

NextId == Len(consumed) + 1

\* server.asyncHandleRequest: wg.Add(1) and `go func`; the goroutine starts
\* in front of its select with the loop's ctx.  A ctx whose deadline passed
\* before the launch is "late", one whose deadline passes later "expired".
NewOp(req, ctx) ==
    [id |-> req.id, cmd |-> req.cmd, pc |-> "select",
     ctx |-> IF ctx = "expired" THEN "late" ELSE ctx,
     took |-> FALSE,
     body |-> IF req.cmd # CmdPut THEN "none"
              ELSE IF req.size = 0 THEN "empty" ELSE "base64"]

\* Faulty variant: the loop takes the token itself before it launches.
LaunchReadyNeedsToken == sem < semCap
\* asyncHandleRequest lines 137-138: wg.Add(1) and the `go` statement do not
\* wait for anything; the send on s.sem is made by the new goroutine.
LaunchReady == TRUE

Launch(req) ==
    /\ LaunchReady
    /\ wg' = wg + 1
    /\ ops' = Append(ops, NewOp(req, curCtx))
    /\ pc' = "read"
    /\ curCtx' = "live"
    /\ cur' = NoVal

\* Faulty variant: a body value is read after every put.
HasBodyAlways(req) == TRUE
\* decodePutBody line 158: a body value follows the request.
HasBody(req) == req.size # 0

\* Faulty variant: serve returns after an unrecognised command.
AfterUnknownReturns == "done"
\* Where serve goes after a Request with an unrecognised command.
AfterUnknown == "read"

\* Faulty variant: the loop goes on after a failed Decode.
AfterDecodeErrorContinues == "read"
\* Where serve goes after a failed Decode of a top-level value.
AfterDecodeError == "errwait"

\* Faulty variant: a failed body decode is skipped without a Response.
BodyErrSilent == FALSE
\* serve lines 89-92: a failed body decode is answered with a Response.
BodyErrAnswered == TRUE

\* serve, lines 78-108: Decode returned a Request; switch on its Command.
ReadRequest(cmd, size) ==
    /\ UNCHANGED sideVars
    /\ pc = "read"
    /\ ~decErr
    /\ CanRead
    /\ (cmd \in {CmdGet, CmdPut} => CanLaunch)
    /\ LET req == ObjVal(NextId, cmd, size) IN
       /\ consumed' = Append(consumed, Log(req, "req", TRUE))
       /\ CASE cmd = CmdGet ->
                 /\ Launch(req)
                 /\ UNCHANGED lw
            [] cmd = CmdPut /\ HasBody(req) ->
                 /\ pc' = "body"
                 /\ cur' = req
                 /\ UNCHANGED <<wg, ops, curCtx, lw>>
            [] cmd = CmdPut /\ ~HasBody(req) ->
                 /\ Launch(req)
                 /\ UNCHANGED lw
            [] cmd = CmdClose ->
                 /\ pc' = "closewait"
                 /\ cur' = req
                 /\ UNCHANGED <<wg, ops, curCtx, lw>>
            [] OTHER ->
                 /\ LoopWrite(req.id, "unknown", {}, AfterUnknown)
                 /\ cur' = req
                 /\ UNCHANGED <<wg, ops, curCtx>>
    /\ UNCHANGED <<m, semCap, sem, mu, out, decErr, result>>

\* serve, lines 78-82: Decode fails on the top-level value: a value that is
\* not JSON (or the end of the stream), or a JSON string where a Request
\* object is expected.  The loop goes to s.wg.Wait().
ReadBad(val) ==
    /\ UNCHANGED sideVars
    /\ pc = "read"
    /\ ~decErr
    /\ CanRead
    /\ consumed' = Append(consumed, Log(val, "req", FALSE))
    /\ decErr' = (val.kind = "bad")
    /\ pc' = AfterDecodeError
    /\ UNCHANGED <<m, semCap, sem, wg, ops, mu, out, curCtx, cur, lw, result>>

\* Decode after a syntax error: json.Decoder returns its stored error and
\* reads nothing.
ReadSticky ==
    /\ UNCHANGED sideVars
    /\ pc = "read"
    /\ decErr
    /\ CanRead
    /\ consumed' = Append(consumed, Log(NoVal, "req", FALSE))
    /\ pc' = AfterDecodeError
    /\ UNCHANGED <<m, semCap, sem, wg, ops, mu, out, curCtx, cur, lw, decErr,
                   result>>

\* decodePutBody, lines 162-167, and serve lines 88-96: the next value is
\* decoded into a string.  A JSON string is accepted (base64 is decoded
\* lazily by the handler); a JSON object is a type error; anything else is
\* a syntax error, which the Decoder keeps.
ReadBody(val) ==
    /\ UNCHANGED sideVars
    /\ pc = "body"
    /\ consumed' = Append(consumed, Log(val, "body", val.kind = "str"))
    /\ decErr' = (val.kind = "bad")
    /\ IF val.kind = "str"
       THEN /\ Launch(cur)
            /\ UNCHANGED lw
       ELSE /\ IF BodyErrAnswered
               THEN LoopWrite(cur.id, "bodyerr", {}, "read")
               ELSE pc' = "read" /\ lw' = lw
            /\ UNCHANGED <<wg, ops, curCtx, cur>>
    /\ UNCHANGED <<m, semCap, sem, mu, out, result>>

\* Faulty variant: the loop does not wait for the launched goroutines.
WgWaitNoWait == TRUE
\* s.wg.Wait() returns.
WgWait == wg = 0

\* server.handleRequest, lines 122-131: the Response written for a command
\* with a registered handler (by the handler) or without one.
HandlerKind(cmd) == IF cmd \in m THEN "handler" ELSE "nohandler"

\* serve, lines 97-101: close waits for the drain, then runs handleRequest
\* on the loop's goroutine; serve returns nil after it.
CloseDrained ==
    /\ UNCHANGED sideVars
    /\ pc = "closewait"
    /\ WgWait
    /\ LoopWrite(cur.id, HandlerKind(CmdClose), {}, "done")
    /\ UNCHANGED <<m, semCap, sem, wg, ops, mu, out, consumed, curCtx, cur,
                   decErr, result>>

\* serve, lines 79-81: after the failed Decode, wait for the drain and
\* return the error.
ErrDrained ==
    /\ UNCHANGED sideVars
    /\ pc = "errwait"
    /\ WgWait
    /\ pc' = "done"
    /\ result' = "err"
    /\ UNCHANGED <<m, semCap, sem, wg, ops, mu, out, consumed, curCtx, cur,
                   lw, decErr>>

\* ------------------------------------------------- the launched goroutines

SetOp(i, f, v) == [ops EXCEPT ![i] = [@ EXCEPT ![f] = v]]

\* The deadline of a launched request's context passes (the timer runs until
\* the deferred cancel()).
Expire(i) ==
    /\ UNCHANGED sideVars
    /\ i \in OpIds
    /\ ops[i].pc \in {"select", "run"}
    /\ ops[i].ctx = "live"
    /\ ops' = SetOp(i, "ctx", "expired")
    /\ UNCHANGED <<pc, m, semCap, sem, wg, mu, out, consumed, curCtx, cur, lw,
                   decErr, result>>

\* Faulty variant: the token channel never fills up.
SemHasRoomUnbounded == TRUE
\* asyncHandleRequest line 143: the send on s.sem can proceed.
SemHasRoom == sem < semCap

\* asyncHandleRequest line 146: ctx.Done() is closed.
CtxDone(i) == ops[i].ctx \in {"expired", "late"}

\* select, case s.sem <- struct{}{}: the token is taken and handleRequest
\* is entered.  When ctx.Done() is ready too, Go's select picks either case.
Acquire(i) ==
    /\ UNCHANGED sideVars
    /\ i \in OpIds
    /\ ops[i].pc = "select"
    /\ SemHasRoom
    /\ sem' = sem + 1
    /\ ops' = [ops EXCEPT ![i] = [@ EXCEPT !.pc = "run", !.took = TRUE,
                                           !.ctx = IF CtxDone(i) THEN "expired"
                                                   ELSE "live"]]
    /\ UNCHANGED <<pc, m, semCap, wg, mu, out, consumed, curCtx, cur, lw,
                   decErr, result>>

\* Faulty variant: the goroutine returns without s.wg.Done().
WgDoneMissing(n) == n
\* asyncHandleRequest line 139: the deferred s.wg.Done().
WgDone(n) == n - 1

\* Faulty variant: the timeout branch falls into handleRequest.
AfterTimeoutHandles == "run"
\* asyncHandleRequest lines 147-151: after the cancellation Response the
\* goroutine returns.
AfterTimeout == "done"

\* Faulty variant: the deadline is also acted upon while the handler runs.
InSelectOrHandler(i) == ops[i].pc \in {"select", "run"}
\* asyncHandleRequest lines 142-152: ctx.Done() is received from only in the
\* select, before handleRequest is entered.
InSelect(i) == ops[i].pc = "select"

\* select, case <-ctx.Done(), and WriteResponse of the cancellation
\* Response up to the start of its encoding.  (The goroutine is committed
\* to the case before it has the writer's lock; no other goroutine can see
\* that, so the two are one step.)
Timeout(i) ==
    /\ UNCHANGED sideVars
    /\ i \in OpIds
    /\ InSelect(i)
    /\ CtxDone(i)
    /\ MuFree
    /\ mu' = i
    /\ out' = Append(out, Frag(ops[i].id, "cancel", {}, i, "b"))
    /\ ops' = SetOp(i, "pc", "cancelw")
    /\ UNCHANGED <<pc, m, semCap, sem, wg, consumed, curCtx, cur, lw, decErr,
                   result>>

\* ... finish encoding and unlock; then `return` and the deferred cancel()
\* and s.wg.Done().
TimeoutEnd(i) ==
    /\ UNCHANGED sideVars
    /\ i \in OpIds
    /\ ops[i].pc = "cancelw"
    /\ out' = Append(out, Frag(ops[i].id, "cancel", {}, i, "e"))
    /\ mu' = NoOwner
    /\ IF AfterTimeout = "done"
       THEN /\ wg' = WgDone(wg)
            /\ ops' = [ops EXCEPT ![i] = [@ EXCEPT !.pc = "done",
                                                   !.ctx = "canceled"]]
       ELSE /\ wg' = wg
            /\ ops' = SetOp(i, "pc", AfterTimeout)
    /\ UNCHANGED <<pc, m, semCap, sem, consumed, curCtx, cur, lw, decErr,
                   result>>

\* handleRequest on the goroutine: the handler registered for the command
\* (or handleRequest itself when there is none) calls WriteResponse: lock and
\* start encoding.
OpWriteBegin(i) ==
    /\ UNCHANGED sideVars
    /\ i \in OpIds
    /\ ops[i].pc = "run"
    /\ MuFree
    /\ mu' = i
    /\ out' = Append(out, Frag(ops[i].id, HandlerKind(ops[i].cmd), {}, i, "b"))
    /\ ops' = SetOp(i, "pc", "runw")
    /\ UNCHANGED <<pc, m, semCap, sem, wg, consumed, curCtx, cur, lw, decErr,
                   result>>

\* ... finish encoding and unlock; the handler has written its Response and
\* goes on to its return.
OpWriteEnd(i) ==
    /\ UNCHANGED sideVars
    /\ i \in OpIds
    /\ ops[i].pc = "runw"
    /\ out' = Append(out, Frag(ops[i].id, HandlerKind(ops[i].cmd), {}, i, "e"))
    /\ mu' = NoOwner
    /\ ops' = SetOp(i, "pc", "post")
    /\ UNCHANGED <<pc, m, semCap, sem, wg, consumed, curCtx, cur, lw, decErr,
                   result>>

\* handleRequest returns, and the deferred calls of the goroutine are made:
\* <-s.sem, then cancel() and s.wg.Done().
Finish(i) ==
    /\ UNCHANGED sideVars
    /\ i \in OpIds
    /\ ops[i].pc = "post"
    /\ sem' = sem - 1
    /\ wg' = WgDone(wg)
    /\ ops' = [ops EXCEPT ![i] = [@ EXCEPT !.pc = "done", !.ctx = "canceled"]]
    /\ UNCHANGED <<pc, m, semCap, mu, out, consumed, curCtx, cur, lw, decErr,
                   result>>

\* ----------------------------------------------------------- specification

\* The inbound values the model offers to a Decode.
TopBad == {StrVal, BadVal}
BodyVals == {StrVal, BadVal, ObjVal(0, CmdGet, 0)}

Read ==
    \E cmd \in Cmds, size \in BodySizes :
        /\ (cmd # CmdPut => size = 0)
        /\ ReadRequest(cmd, size)

Next ==
    \/ Serve
    \/ LoopWriteBegin
    \/ LoopWriteEnd
    \/ ExpireCur
    \/ Read
    \/ \E val \in TopBad : ReadBad(val)
    \/ ReadSticky
    \/ \E val \in BodyVals : ReadBody(val)
    \/ CloseDrained
    \/ ErrDrained
    \/ \E i \in 1..MaxOps : Expire(i)
    \/ \E i \in 1..MaxOps : Acquire(i)
    \/ \E i \in 1..MaxOps : Timeout(i)
    \/ \E i \in 1..MaxOps : TimeoutEnd(i)
    \/ \E i \in 1..MaxOps : OpWriteBegin(i)
    \/ \E i \in 1..MaxOps : OpWriteEnd(i)
    \/ \E i \in 1..MaxOps : Finish(i)

Spec == Init /\ [][Next]_vars

TypeOK ==
    /\ pc \in {"setup", "lwrite", "lwend", "read", "body",
               "closewait", "errwait", "done"}
    /\ m \subseteq allowedCommands
    /\ semCap \in Concurrencies
    /\ sem \in 0..MaxOps
    /\ wg \in 0..MaxOps
    /\ Len(ops) <= MaxOps
    /\ mu \in {NoOwner, LoopW} \cup OpIds
    /\ Len(consumed) <= MaxLog
    /\ curCtx \in {"live", "expired"}
    /\ decErr \in BOOLEAN
    /\ result \in {"none", "nil", "err"}

\* A step of the loop that does not wait for the inbound stream.
LoopStep == LoopWriteBegin \/ LoopWriteEnd \/ CloseDrained \/ ErrDrained

\* A step of a launched goroutine, or its timer firing.
OpStep(i) ==
    \/ Expire(i)
    \/ Acquire(i)
    \/ Timeout(i)
    \/ TimeoutEnd(i)
    \/ OpWriteBegin(i)
    \/ OpWriteEnd(i)
    \/ Finish(i)

\* The Go scheduler runs some goroutine that can run, timers fire after the
\* finite s.timeout and sync.Mutex is handed over: as long as the loop (not
\* blocked in Decode) or a launched goroutine can take a step, one is taken.
\* Nothing is assumed of the inbound stream.
Fairness == WF_vars(LoopStep \/ \E i \in 1..MaxOps : OpStep(i))

FairSpec == Spec /\ Fairness

\* ------------------------------------------ the registry and its middleware

\* Number of middleware registered with Use that the model follows.
MaxMw == 2

\* The middleware offered to Use.
Middlewares == {"logging", "metrics"}

\* The argument lists of the calls of Use: one middleware, or two.
UseArgs ==
    {<<a>> : a \in Middlewares} \cup {<<a, b>> : a, b \in Middlewares}

\* Faulty variant: every command kind may be registered.
AllowedAny(cmd) == TRUE
\* HandleFunc line 192: the kind is a key of mux.allowedCommands.
Allowed(cmd) == cmd \in allowedCommands

\* ServeMux.HandleFunc: panic for a kind that is not allowed, before the
\* registry is touched; otherwise store the handler under the kind.
HandleFunc(cmd) ==
    /\ lastReg' = [cmd |-> cmd, panicked |-> ~Allowed(cmd), before |-> m]
    /\ m' = IF Allowed(cmd) THEN m \cup {cmd} ELSE m
    /\ UNCHANGED <<serverRest, mu, out, middleware, trace, reg, writerVars,
                   diskVars>>

\* ServeMux.Use: append the arguments to mux.middleware.
Use(mws) ==
    /\ Len(middleware) + Len(mws) <= MaxMw
    /\ middleware' = middleware \o mws
    /\ UNCHANGED <<serverRest, m, mu, out, lastReg, trace, reg, writerVars,
                   diskVars>>

\* A Handler: the registered handler of a command kind inside the middleware
\* wrapped around it so far, outermost first.
HandlerOf(cmd) == [cmd |-> cmd, layers |-> <<>>]

\* Middleware mw applied to handler h: a Handler that runs mw around h.
Wrap(mw, h) == [h EXCEPT !.layers = <<mw>> \o @]

\* Faulty variant: the loop of Apply takes the middleware front to back.
ApplyIndexForward(n, i) == i + 1
\* Apply line 225: the (1-based) position of middleware[(len(middleware)-1)-i].
ApplyIndex(n, i) == n - i

\* ServeMux.Apply: for i := range len(middleware) { h = middleware[...](h) }.
RECURSIVE ApplyLoop(_, _, _)
ApplyLoop(h, mws, i) ==
    IF i >= Len(mws)
    THEN h
    ELSE ApplyLoop(Wrap(mws[ApplyIndex(Len(mws), i)], h), mws, i + 1)

Apply(h, mws) == ApplyLoop(h, mws, 0)

Ev(what, who) == [what |-> what, who |-> who]

\* Handler.Handle: a middleware (LoggingMiddleware) does its work before
\* next.Handle, calls it, and does its work after; the registered handler
\* is the innermost call.
RECURSIVE RunLayers(_, _)
RunLayers(layers, cmd) ==
    IF layers = <<>>
    THEN <<Ev("handler", cmd)>>
    ELSE <<Ev("enter", Head(layers))>>
         \o RunLayers(Tail(layers), cmd)
         \o <<Ev("exit", Head(layers))>>

Handle(h) == RunLayers(h.layers, h.cmd)

\* server.handleRequest: look the handler up; without one answer with an
\* error, with one run serveMux.Apply(h, serveMux.middleware...).Handle.
Dispatch(cmd) ==
    /\ trace' = [cmd |-> cmd, mws |-> middleware,
                 events |-> IF cmd \in m
                            THEN Handle(Apply(HandlerOf(cmd), middleware))
                            ELSE <<Ev("nohandler", cmd)>>]
    /\ UNCHANGED <<serverRest, m, mu, out, middleware, lastReg, reg,
                   writerVars, diskVars>>

\* The server before Serve is called.
ServerIdle ==
    /\ pc = "setup"
    /\ semCap = 1
    /\ sem = 0
    /\ wg = 0
    /\ ops = <<>>
    /\ consumed = <<>>
    /\ curCtx = "live"
    /\ cur = NoVal
    /\ lw = NoWrite
    /\ decErr = FALSE
    /\ result = "none"

MuxInit ==
    /\ ServerIdle
    /\ m = {}
    /\ mu = NoOwner
    /\ out = <<>>
    /\ SideIdle

MuxNext ==
    \/ \E cmd \in Cmds : HandleFunc(cmd)
    \/ \E mws \in UseArgs : Use(mws)
    \/ \E cmd \in allowedCommands : Dispatch(cmd)

\* The program's setup (registrations and Use) and the dispatches made with
\* the registry.
MuxSpec == MuxInit /\ [][MuxNext]_vars

\* ------------------------------------------------ the registry's locking

\* The functions of the registry are followed statement by statement for the
\* goroutines RegIds: Mux is exported, so any goroutine of the program can
\* call HandleFunc or Use while the server dispatches.

\* Number of calls into the registry that each goroutine makes.
MaxUses == 2

RegAt(t, p) == reg[t].pc = p

\* Goroutine t can make one more call.
CanCall(t) == RegAt(t, "idle") /\ reg[t].n < MaxUses

\* Goroutine t has returned from its call.
Returned(t) == [NoUse EXCEPT !.n = reg[t].n]

\* mux.mu is write-locked from Lock to the deferred Unlock of HandleFunc.
WLocked == \E t \in RegIds : reg[t].pc \in {"store", "unlock"}

\* mux.mu is read-locked from RLock to RUnlock of handleRequest.
RLocked == \E t \in RegIds : reg[t].pc \in {"lookup", "runlock"}

\* Goroutine t is writing the handler map / the middleware list.
WritingM(t) == RegAt(t, "store")
WritingMw(t) == RegAt(t, "append")

\* Goroutine t is reading or writing the handler map / the middleware list.
AccessingM(t) == reg[t].pc \in {"store", "lookup", "keys"}
AccessingMw(t) == reg[t].pc \in {"append", "readmw"}

\* What a racing read can give besides the old and the new value: a slice
\* header seen half-written (an index out of range), a map under change
\* (the runtime's "concurrent map iteration and map write").
TornList == <<"torn">>
TornMap == {"torn"}

\* HandleFunc lines 192-194: an unsupported kind panics before the lock.
HandleFuncPanic(t, cmd) ==
    /\ CanCall(t)
    /\ ~Allowed(cmd)
    /\ lastReg' = [cmd |-> cmd, panicked |-> TRUE, before |-> m]
    /\ reg' = [reg EXCEPT ![t].n = @ + 1]
    /\ UNCHANGED <<serverVars, middleware, trace, writerVars, diskVars>>

\* HandleFunc line 196: mux.mu.Lock() waits for every reader and writer.
HandleFuncLock(t, cmd) ==
    /\ CanCall(t)
    /\ Allowed(cmd)
    /\ ~WLocked
    /\ ~RLocked
    /\ reg' = [reg EXCEPT ![t] = [pc |-> "store", arg |-> cmd, old |-> m,
                                  found |-> FALSE, raced |-> FALSE,
                                  n |-> reg[t].n + 1]]
    /\ UNCHANGED <<serverVars, middleware, lastReg, trace, writerVars, diskVars>>

\* HandleFunc line 198: mux.m[cmd] = HandlerFunc(handler).
HandleFuncStore(t) ==
    /\ RegAt(t, "store")
    /\ m' = m \cup {reg[t].arg}
    /\ lastReg' = [cmd |-> reg[t].arg, panicked |-> FALSE, before |-> m]
    /\ reg' = [u \in RegIds |->
                 IF u = t THEN [reg[t] EXCEPT !.pc = "unlock"]
                 ELSE IF RegAt(u, "keys") THEN [reg[u] EXCEPT !.raced = TRUE]
                 ELSE reg[u]]
    /\ UNCHANGED <<serverRest, mu, out, middleware, trace, writerVars, diskVars>>

\* HandleFunc line 197: the deferred mux.mu.Unlock().
HandleFuncUnlock(t) ==
    /\ RegAt(t, "unlock")
    /\ reg' = [reg EXCEPT ![t] = Returned(t)]
    /\ UNCHANGED <<serverVars, middleware, lastReg, trace, writerVars, diskVars>>

\* Use line 218, first half: append reads mux.middleware.  No lock is taken.
UseRead(t, mws) ==
    /\ CanCall(t)
    /\ Len(middleware) + Len(mws) <= MaxMw
    /\ reg' = [reg EXCEPT ![t] = [pc |-> "append", arg |-> mws,
                                  old |-> middleware, found |-> FALSE,
                                  raced |-> FALSE, n |-> reg[t].n + 1]]
    /\ UNCHANGED <<serverVars, middleware, lastReg, trace, writerVars, diskVars>>

\* Use line 218, second half: the appended slice is stored in
\* mux.middleware.  A read of the list that is under way races with it.
UseStore(t) ==
    /\ RegAt(t, "append")
    /\ middleware' = reg[t].old \o reg[t].arg
    /\ reg' = [u \in RegIds |->
                 IF u = t THEN Returned(t)
                 ELSE IF RegAt(u, "readmw") THEN [reg[u] EXCEPT !.raced = TRUE]
                 ELSE reg[u]]
    /\ UNCHANGED <<serverVars, lastReg, trace, writerVars, diskVars>>

\* handleRequest line 122: serveMux.mu.RLock() waits for a writer only.
LookupRLock(t, cmd) ==
    /\ CanCall(t)
    /\ ~WLocked
    /\ reg' = [reg EXCEPT ![t] = [pc |-> "lookup", arg |-> cmd, old |-> <<>>,
                                  found |-> FALSE, raced |-> FALSE,
                                  n |-> reg[t].n + 1]]
    /\ UNCHANGED <<serverVars, middleware, lastReg, trace, writerVars, diskVars>>

\* handleRequest line 123: h, ok := serveMux.m[r.Command].
Lookup(t) ==
    /\ RegAt(t, "lookup")
    /\ reg' = [reg EXCEPT ![t].pc = "runlock", ![t].found = (reg[t].arg \in m)]
    /\ UNCHANGED <<serverVars, middleware, lastReg, trace, writerVars, diskVars>>

\* handleRequest lines 124-131: RUnlock; without a handler the error
\* Response is written and the function returns.
LookupRUnlock(t) ==
    /\ RegAt(t, "runlock")
    /\ IF reg[t].found
       THEN /\ reg' = [reg EXCEPT ![t].pc = "readmw", ![t].old = middleware]
            /\ UNCHANGED trace
       ELSE /\ reg' = [reg EXCEPT ![t] = Returned(t)]
            /\ trace' = [cmd |-> reg[t].arg, mws |-> <<>>,
                         events |-> <<Ev("nohandler", reg[t].arg)>>]
    /\ UNCHANGED <<serverVars, middleware, lastReg, writerVars, diskVars>>

\* The values a read of mux.middleware by goroutine t can give: the list as
\* it is; when a Use ran during the read also the list as it was, and a
\* slice header seen half-written.
MiddlewareSeen(t) ==
    IF ~RegAt(t, "readmw") THEN {}
    ELSE IF reg[t].raced \/ \E u \in RegIds : RegAt(u, "append")
    THEN {middleware, reg[t].old, TornList}
    ELSE {middleware}

\* handleRequest line 132: serveMux.middleware is read (the lock has been
\* released), then Apply(h, ...).Handle runs.
ReadMiddleware(t, seen) ==
    /\ RegAt(t, "readmw")
    /\ seen \in MiddlewareSeen(t)
    /\ trace' = IF seen = TornList
                THEN [cmd |-> reg[t].arg, mws |-> <<>>,
                      events |-> <<Ev("crash", reg[t].arg)>>]
                ELSE [cmd |-> reg[t].arg, mws |-> seen,
                      events |-> Handle(Apply(HandlerOf(reg[t].arg), seen))]
    /\ reg' = [reg EXCEPT ![t] = Returned(t)]
    /\ UNCHANGED <<serverVars, middleware, lastReg, writerVars, diskVars>>

\* knownCommands line 232, entry: maps.Keys(mux.m) starts to range over the
\* map.  No lock is taken.
KeysBegin(t) ==
    /\ CanCall(t)
    /\ reg' = [reg EXCEPT ![t] = [pc |-> "keys", arg |-> <<>>, old |-> m,
                                  found |-> FALSE, raced |-> FALSE,
                                  n |-> reg[t].n + 1]]
    /\ UNCHANGED <<serverVars, middleware, lastReg, trace, writerVars, diskVars>>

\* The values a range over mux.m by goroutine t can give.
KeysSeen(t) ==
    IF ~RegAt(t, "keys") THEN {}
    ELSE IF reg[t].raced \/ \E u \in RegIds : RegAt(u, "store")
    THEN {m, reg[t].old, TornMap}
    ELSE {m}

\* knownCommands line 232, return: the kinds collected.
KeysEnd(t, seen) ==
    /\ RegAt(t, "keys")
    /\ seen \in KeysSeen(t)
    /\ trace' = [cmd |-> "knownCommands", mws |-> <<>>,
                 events |-> <<Ev("keys", seen)>>]
    /\ reg' = [reg EXCEPT ![t] = Returned(t)]
    /\ UNCHANGED <<serverVars, middleware, lastReg, writerVars, diskVars>>

RegInit ==
    /\ ServerIdle
    /\ m = {}
    /\ mu = NoOwner
    /\ out = <<>>
    /\ SideIdle

RegNext ==
    \E t \in RegIds :
        \/ \E cmd \in Cmds : HandleFuncPanic(t, cmd)
        \/ \E cmd \in Cmds : HandleFuncLock(t, cmd)
        \/ HandleFuncStore(t)
        \/ HandleFuncUnlock(t)
        \/ \E mws \in UseArgs : UseRead(t, mws)
        \/ UseStore(t)
        \/ \E cmd \in allowedCommands : LookupRLock(t, cmd)
        \/ Lookup(t)
        \/ LookupRUnlock(t)
        \/ \E seen \in MiddlewareSeen(t) : ReadMiddleware(t, seen)
        \/ KeysBegin(t)
        \/ \E seen \in KeysSeen(t) : KeysEnd(t, seen)

\* Goroutines of one program registering, adding middleware, dispatching
\* and listing the known commands at the same time.
RegSpec == RegInit /\ [][RegNext]_vars

\* ------------------------------------------- the writer, failures included

\* Number of WriteResponse calls that the writer's specification follows.
MaxWrites == 2

\* The Responses handed to WriteResponse: an ID, and whether encoding/json
\* can marshal the value (a Time outside the years 0..9999 cannot be).
Responses == {[rid |-> r, fit |-> f] : r \in {1, 2}, f \in BOOLEAN}

\* json.Encoder.Encode: the stored error is returned at once; a value that
\* cannot be marshalled is an error and nothing is written; otherwise the
\* bytes are handed to stdout in one Write, which succeeds, fails, or fails
\* after a part of the bytes.  A failed Write is stored in the Encoder.
EncodeOutcomes(fit) ==
    IF encErr THEN {"stored"}
    ELSE IF ~fit THEN {"marshal"}
    ELSE {"ok", "fail", "torn"}

\* What an Encode with outcome r puts on the stream for the message f.
Written(r, f) ==
    IF r = "ok" THEN <<[f EXCEPT !.part = "b"], [f EXCEPT !.part = "e"]>>
    ELSE IF r = "torn" THEN <<[f EXCEPT !.part = "b"]>>
    ELSE <<>>

\* WriteResponse calls made so far (n counts the calls of one goroutine).
Writes == callers[1].n + callers[2].n

\* A goroutine calls WriteResponse(res).
WCall(c, res) ==
    /\ callers[c].pc \in {"idle", "ret"}
    /\ Writes < MaxWrites
    /\ callers' = [callers EXCEPT ![c] = [pc |-> "lock", rid |-> res.rid,
                                          fit |-> res.fit, err1 |-> FALSE,
                                          err2 |-> FALSE, n |-> @.n + 1]]
    /\ UNCHANGED <<serverRest, m, mu, out, encErr, logged, muxVars, diskVars>>

\* WriteResponse line 265: w.mu.Lock().
WLock(c) ==
    /\ callers[c].pc = "lock"
    /\ MuFree
    /\ mu' = c
    /\ callers' = [callers EXCEPT ![c].pc = "encode"]
    /\ UNCHANGED <<serverRest, m, out, encErr, logged, muxVars, diskVars>>

\* WriteResponse line 268: w.encoder.Encode(res).
WEncode(c, r) ==
    /\ callers[c].pc = "encode"
    /\ r \in EncodeOutcomes(callers[c].fit)
    /\ out' = out \o Written(r, Frag(callers[c].rid, "response", {}, c, "b"))
    /\ encErr' = (encErr \/ r \in {"fail", "torn"})
    /\ callers' = [callers EXCEPT ![c].pc = IF r = "ok" THEN "unlock" ELSE "fallback",
                                  ![c].err1 = (r # "ok")]
    /\ UNCHANGED <<serverRest, m, mu, logged, muxVars, diskVars>>

\* Faulty variant: the fallback Response is built without the ID.
FallbackIdZero(c) == 0
\* WriteResponse line 270: the fallback carries res.ID.
FallbackId(c) == callers[c].rid

\* WriteResponse lines 269-272: Encode of the fallback Response, which holds
\* an ID and a string and can always be marshalled.
WFallback(c, r) ==
    /\ callers[c].pc = "fallback"
    /\ r \in EncodeOutcomes(TRUE)
    /\ out' = out \o Written(r, Frag(FallbackId(c), "fallback", {}, c, "b"))
    /\ encErr' = (encErr \/ r \in {"fail", "torn"})
    /\ callers' = [callers EXCEPT ![c].pc = IF r = "ok" THEN "unlock" ELSE "log",
                                  ![c].err2 = (r # "ok")]
    /\ UNCHANGED <<serverRest, m, mu, logged, muxVars, diskVars>>

\* WriteResponse lines 273-275: log.Printf of the second failure.
WLog(c) ==
    /\ callers[c].pc = "log"
    /\ logged' = Append(logged, [w |-> c, rid |-> callers[c].rid])
    /\ callers' = [callers EXCEPT ![c].pc = "unlock"]
    /\ UNCHANGED <<serverRest, m, mu, out, encErr, muxVars, diskVars>>

\* Faulty variant: the lock is given back only after a successful Encode.
UnlocksOnSuccess(c) == ~callers[c].err1
\* WriteResponse line 266: the Unlock is deferred, so it is made on every
\* path.
Unlocks(c) == TRUE

\* WriteResponse returns; the deferred w.mu.Unlock() runs.
WUnlock(c) ==
    /\ callers[c].pc = "unlock"
    /\ mu' = IF Unlocks(c) THEN NoOwner ELSE mu
    /\ callers' = [callers EXCEPT ![c].pc = "ret"]
    /\ UNCHANGED <<serverRest, m, out, encErr, logged, muxVars, diskVars>>

WriterInit ==
    /\ ServerIdle
    /\ m = {}
    /\ mu = NoOwner
    /\ out = <<>>
    /\ SideIdle

WriterNext ==
    \/ \E c \in WriterIds, res \in Responses : WCall(c, res)
    \/ \E c \in WriterIds : WLock(c)
    \/ \E c \in WriterIds, r \in {"ok", "fail", "torn", "marshal", "stored"} : WEncode(c, r)
    \/ \E c \in WriterIds, r \in {"ok", "fail", "torn", "stored"} : WFallback(c, r)
    \/ \E c \in WriterIds : WLog(c)
    \/ \E c \in WriterIds : WUnlock(c)

\* defaultWriter under concurrent callers, with Responses that cannot be
\* marshalled and with a stdout that may fail.
WriterSpec == WriterInit /\ [][WriterNext]_vars

\* ------------------------------------------------ the disk cache handlers

\* Number of handler invocations that the disk cache's specification follows.
MaxCalls == 2

\* The ActionID and OutputID values of the requests: absent, and one byte.
ActionIDs == {<<>>, <<10>>}
OutputIDs == {<<>>, <<171>>}

\* The bodies of the put requests: the declared BodySize, the bytes that the
\* base64 stream decodes to, and whether the stream is valid base64 to its
\* end.  With BodySize 0 the Body is the empty reader of decodePutBody.
PutBodies ==
    {[size |-> 0, body |-> <<>>, intact |-> TRUE],
     [size |-> 1, body |-> <<1>>, intact |-> TRUE],
     [size |-> 1, body |-> <<2>>, intact |-> TRUE],
     [size |-> 1, body |-> <<>>, intact |-> TRUE],
     [size |-> 1, body |-> <<1>>, intact |-> FALSE]}

DiskRequests ==
    {[cmd |-> CmdGet, action |-> a, output |-> <<>>, size |-> 0, body |-> <<>>,
      intact |-> TRUE] : a \in ActionIDs}
    \cup
    {[cmd |-> CmdPut, action |-> a, output |-> o, size |-> b.size,
      body |-> b.body, intact |-> b.intact] :
        a \in ActionIDs, o \in OutputIDs, b \in PutBodies}

\* hex.EncodeToString, and the verb %x applied to a byte slice: two digits
\* (0..15) for every byte, the high one first.
Hex(id) ==
    [k \in 1..(2 * Len(id)) |->
        IF k % 2 = 1 THEN id[(k + 1) \div 2] \div 16 ELSE id[k \div 2] % 16]

\* hex.DecodeString: an odd number of digits is an error.
UnhexFails(h) == Len(h) % 2 = 1
Unhex(h) == [k \in 1..(Len(h) \div 2) |-> h[2 * k - 1] * 16 + h[2 * k]]

\* getObjectPath / getActionPath: hexID[:2] panics when the ID is empty.
PathPanics(id) == Len(Hex(id)) < 2

\* filepath.Join(h.cacheDir, hexID[:2], hexID+suffix)
DiskPath(id, suffix) ==
    [dir |-> SubSeq(Hex(id), 1, 2), name |-> Hex(id), suffix |-> suffix]

getObjectPath(id) == DiskPath(id, "-d")
getActionPath(id) == DiskPath(id, "-a")

Exists(path) == path \in DOMAIN files

\* os.Create, or a write through an open file: the path holds the content.
FilePut(fs, path, content) ==
    [q \in DOMAIN fs \cup {path} |-> IF q = path THEN content ELSE fs[q]]

\* A write through a file that is open: it changes what the path holds
\* unless the path has been removed in the meantime.
FileWrite(fs, path, content) ==
    IF path \in DOMAIN fs THEN [fs EXCEPT ![path] = content] ELSE fs

\* os.Remove
FileRemove(fs, paths) == [q \in DOMAIN fs \ paths |-> fs[q]]

NoResp == [id |-> 0, kind |-> "", output |-> <<>>, size |-> 0, path |-> <<>>,
           content |-> <<>>]
RespMiss == [NoResp EXCEPT !.kind = "miss"]
RespErr == [NoResp EXCEPT !.kind = "err"]

\* A panic in a handler ends the process.
NoPanic == \A i \in DOMAIN calls : calls[i].pc # "panic"

InProgress == {i \in DOMAIN calls : calls[i].pc \notin {"done", "panic"}}

\* The handler registered for the request's command is invoked by a
\* goroutine that holds a token of s.sem.  The call notes the invocations
\* that are in progress at that moment.  The requests of a session carry
\* the IDs 1, 2, ... in the order they are sent.
DStart(req) ==
    /\ NoPanic
    /\ Len(calls) < MaxCalls
    /\ Cardinality(InProgress) < semCap
    /\ calls' = Append(calls,
          [id |-> Len(calls) + 1,
           cmd |-> req.cmd, action |-> req.action, output |-> req.output,
           size |-> req.size, body |-> req.body, intact |-> req.intact,
           pc |-> IF req.cmd = CmdGet THEN "open" ELSE "create",
           sz |-> 0, got |-> <<>>, fsize |-> 0, resp |-> NoResp,
           writes |-> 0, fault |-> FALSE, overlap |-> InProgress])
    /\ UNCHANGED <<serverVars, muxVars, writerVars, files>>

\* The invocation i calls w.WriteResponse with the Response r, ID: r.ID,
\* and returns (its locals are gone).
Respond(i, r) ==
    [calls EXCEPT ![i].pc = "done", ![i].resp = [r EXCEPT !.id = calls[i].id],
                  ![i].writes = @ + 1, ![i].sz = 0, ![i].got = <<>>,
                  ![i].fsize = 0]

\* ... with writeErrorResponse after a failed system call.
RespondFault(i) ==
    [Respond(i, RespErr) EXCEPT ![i].fault = TRUE]

At(i, where) == NoPanic /\ i \in DOMAIN calls /\ calls[i].pc = where

\* HandlePut lines 137-148: the object path, MkdirAll, os.Create.
PutCreate(i, io) ==
    /\ At(i, "create")
    /\ IF PathPanics(calls[i].output)
       THEN /\ calls' = [calls EXCEPT ![i].pc = "panic"]
            /\ files' = files
       ELSE IF io = "fail"
       THEN /\ calls' = RespondFault(i)
            /\ files' = files
       ELSE /\ calls' = [calls EXCEPT ![i].pc = "copy"]
            /\ files' = FilePut(files, getObjectPath(calls[i].output), <<>>)
    /\ UNCHANGED <<serverVars, muxVars, writerVars>>

\* HandlePut line 150: io.Copy writes the bytes that the Body yields and
\* returns their number, and an error when the base64 stream is corrupt.
PutCopy(i, io) ==
    /\ At(i, "copy")
    /\ files' = FileWrite(files, getObjectPath(calls[i].output), calls[i].body)
    /\ calls' = [calls EXCEPT
                    ![i].sz = Len(calls[i].body),
                    ![i].fault = (io = "fail"),
                    ![i].pc = IF io = "fail" \/ ~calls[i].intact
                              THEN "copyfail" ELSE "action"]
    /\ UNCHANGED <<serverVars, muxVars, writerVars>>

\* HandlePut lines 152-156: the copy failed.
PutCopyFailed(i) ==
    /\ At(i, "copyfail")
    /\ files' = FileRemove(files, {getObjectPath(calls[i].output)})
    /\ calls' = Respond(i, RespErr)
    /\ UNCHANGED <<serverVars, muxVars, writerVars>>

\* HandlePut lines 158-164: the action path and os.Create.
PutAction(i, io) ==
    /\ At(i, "action")
    /\ IF PathPanics(calls[i].action)
       THEN /\ calls' = [calls EXCEPT ![i].pc = "panic"]
            /\ files' = files
       ELSE IF io = "fail"
       THEN /\ calls' = RespondFault(i)
            /\ files' = FileRemove(files, {getObjectPath(calls[i].output)})
       ELSE /\ calls' = [calls EXCEPT ![i].pc = "meta"]
            /\ files' = FilePut(files, getActionPath(calls[i].action), <<>>)
    /\ UNCHANGED <<serverVars, muxVars, writerVars>>

\* Faulty variant: the declared BodySize is recorded.
RecordedSizeDeclared(i) == calls[i].size
\* HandlePut line 166: the size recorded is the number returned by io.Copy.
RecordedSize(i) == calls[i].sz

\* HandlePut lines 166-178: Fprintf of "%x %d %d" (the time is left out),
\* and the Response with the DiskPath.
PutMeta(i, io) ==
    /\ At(i, "meta")
    /\ LET obj == getObjectPath(calls[i].output)
           act == getActionPath(calls[i].action)
       IN  IF io = "fail"
           THEN /\ calls' = RespondFault(i)
                /\ files' = FileRemove(files, {obj, act})
           ELSE /\ calls' = Respond(i, [NoResp EXCEPT !.kind = "ok", !.path = obj])
                /\ files' = FileWrite(files, act,
                                      <<Hex(calls[i].output), RecordedSize(i)>>)
    /\ UNCHANGED <<serverVars, muxVars, writerVars>>

\* HandleGet lines 69-81: the action path and os.Open.
GetOpen(i, io) ==
    /\ At(i, "open")
    /\ calls' =
          IF PathPanics(calls[i].action)
          THEN [calls EXCEPT ![i].pc = "panic"]
          ELSE IF ~Exists(getActionPath(calls[i].action))
          THEN Respond(i, RespMiss)
          ELSE IF io = "fail"
          THEN RespondFault(i)
          ELSE [calls EXCEPT ![i].pc = "scan"]
    /\ UNCHANGED <<serverVars, muxVars, writerVars, files>>

\* HandleGet lines 83-99: Fscanf of "%s %d %d" and hex.DecodeString.  An
\* empty file (one that a put has created and not yet written) does not
\* parse.
GetScan(i) ==
    /\ At(i, "scan")
    /\ LET act == getActionPath(calls[i].action)
           text == IF Exists(act) THEN files[act] ELSE <<>>
       IN  calls' =
              IF text = <<>> THEN Respond(i, RespErr)
              ELSE IF UnhexFails(text[1]) THEN Respond(i, RespErr)
              ELSE [calls EXCEPT ![i].pc = "stat",
                                 ![i].got = Unhex(text[1]),
                                 ![i].fsize = text[2]]
    /\ UNCHANGED <<serverVars, muxVars, writerVars, files>>

\* HandleGet lines 101-128: os.Stat of the object, the size check, and the
\* Response of a hit (content: what the DiskPath holds at that moment).
GetStat(i, io) ==
    /\ At(i, "stat")
    /\ LET obj == getObjectPath(calls[i].got) IN
       calls' =
          IF ~Exists(obj) THEN Respond(i, RespMiss)
          ELSE IF io = "fail" THEN RespondFault(i)
          ELSE IF Len(files[obj]) # calls[i].fsize THEN Respond(i, RespMiss)
          ELSE Respond(i, [id |-> 0, kind |-> "hit", output |-> calls[i].got,
                           size |-> calls[i].fsize, path |-> obj,
                           content |-> files[obj]])
    /\ UNCHANGED <<serverVars, muxVars, writerVars, files>>

DiskInit ==
    /\ pc = "setup"
    /\ semCap \in Concurrencies
    /\ sem = 0
    /\ wg = 0
    /\ ops = <<>>
    /\ consumed = <<>>
    /\ curCtx = "live"
    /\ cur = NoVal
    /\ lw = NoWrite
    /\ decErr = FALSE
    /\ result = "none"
    /\ m = {CmdGet, CmdPut}
    /\ mu = NoOwner
    /\ out = <<>>
    /\ MuxIdle
    /\ WriterIdle
    /\ files = [q \in {} |-> <<>>]
    /\ calls = <<>>

\* The outcomes of a system call.
IO == {"ok", "fail"}

DiskNext ==
    \/ \E req \in DiskRequests : DStart(req)
    \/ \E i \in 1..MaxCalls, io \in IO : PutCreate(i, io)
    \/ \E i \in 1..MaxCalls, io \in IO : PutCopy(i, io)
    \/ \E i \in 1..MaxCalls : PutCopyFailed(i)
    \/ \E i \in 1..MaxCalls, io \in IO : PutAction(i, io)
    \/ \E i \in 1..MaxCalls, io \in IO : PutMeta(i, io)
    \/ \E i \in 1..MaxCalls, io \in IO : GetOpen(i, io)
    \/ \E i \in 1..MaxCalls : GetScan(i)
    \/ \E i \in 1..MaxCalls, io \in IO : GetStat(i, io)

\* LocalDiskCacheHandler.HandleGet and HandlePut invoked concurrently on one
\* cache directory.
DiskSpec == DiskInit /\ [][DiskNext]_vars

\* ------------------------------------------------------------ vocabulary

N == Len(consumed)

\* Positions of `out` where a Response with this ID starts / is complete.
Begins(rid) == {k \in DOMAIN out : out[k].part = "b" /\ out[k].rid = rid}
Ends(rid) == {k \in DOMAIN out : out[k].part = "e" /\ out[k].rid = rid}

\* Positions of the fragments written by writer w.
By(w) == {k \in DOMAIN out : out[k].w = w}

\* The Decode call k returned a get or put Request (and, for a put that
\* announces a body, the Decode of the body has been made too).
Answerable(k) ==
    /\ k \in DOMAIN consumed
    /\ consumed[k].as = "req"
    /\ consumed[k].ok
    /\ consumed[k].val.cmd \in {CmdGet, CmdPut}
    /\ (HasBody(consumed[k].val) => k < N)

\* Decode call k returned a Request with this command.
IsReq(k, cmd) ==
    /\ k \in DOMAIN consumed
    /\ consumed[k].as = "req"
    /\ consumed[k].ok
    /\ consumed[k].val.cmd = cmd

\* The fragments of the Response to the close request (only the loop runs
\* handleRequest itself).
CloseFrags == {k \in By(LoopW) : out[k].kind \in {"handler", "nohandler"}}

AllOpsDone == \A i \in OpIds : ops[i].pc = "done"

\* Goroutines inside handleRequest (the handler invocation is executing).
Running == {i \in OpIds : ops[i].pc \in {"run", "runw", "post"}}

\* Writers inside the encode step of WriteResponse.
Encoding == {i \in OpIds : ops[i].pc \in {"runw", "cancelw"}}
            \cup (IF pc = "lwend" THEN {LoopW} ELSE {})

\* A top-level Decode has failed.
FailedTop == \E k \in DOMAIN consumed : consumed[k].as = "req" /\ ~consumed[k].ok

\* A value that is not valid JSON has been received.
BadSeen == \E k \in DOMAIN consumed : consumed[k].val.kind = "bad"

\* ---------------------------------------------------------------- claims

\* Every get or put Request decoded so far has one complete Response.
AllAnswered ==
    \A k \in 1..MaxLog : Answerable(k) => Cardinality(Ends(k)) = 1

\* C1: every get/put Request that was decoded is answered by exactly one
\* Response with its ID: whenever some are unanswered, eventually all are,
\* and never is a second Response with the ID of a Request started.
C1_ExactlyOneResponse ==
    /\ (~AllAnswered) ~> AllAnswered
    /\ [](\A k \in 1..MaxLog : Cardinality(Begins(k)) <= 1)

\* Both ways to an answer have been taken and no operation is left: one
\* request was answered by its handler, another by the timeout branch.
C1_Witness ==
    /\ AllOpsDone
    /\ \E i, j \in OpIds :
          /\ i # j
          /\ \E k \in Ends(ops[i].id) : out[k].kind = "handler"
          /\ \E k \in Ends(ops[j].id) : out[k].kind = "cancel"

\* C2: the Response to close is the last message on the stream, it starts
\* only when every launched operation is complete and has its Response
\* written before it, nothing is read after the close request, and serve has
\* returned nil once the Response is complete.
C2_CloseIsLast ==
    \A k \in CloseFrags :
        /\ out[k].part = "b" => k >= Len(out) - 1
        /\ out[k].part = "e" => /\ k = Len(out)
                                /\ pc = "done"
                                /\ result = "nil"
        /\ \A i \in OpIds :
              /\ ops[i].pc = "done"
              /\ \E j \in By(i) : j < k /\ out[j].part = "e"
        /\ IsReq(N, CmdClose)
        /\ pc \in {"lwend", "done"}

\* A close after a launched operation has been answered.
C2_Witness ==
    /\ pc = "done"
    /\ result = "nil"
    /\ Len(ops) >= 1
    /\ CloseFrags # {}

\* C3: never more handler invocations in progress than the capacity of the
\* token channel.
C3_BoundedHandlers == Cardinality(Running) <= semCap

\* The limit is reached while a further operation waits for a token.
C3_Witness ==
    /\ Cardinality(Running) = semCap
    /\ \E i \in OpIds : ops[i].pc = "select"

\* C4: the stream starts with the complete ID=0 announcement listing exactly
\* the registered kinds, and no Decode is made before it is complete.
C4_AckFirst ==
    /\ Len(out) >= 1 => out[1] = Frag(0, "ack", m, LoopW, "b")
    /\ Len(out) >= 2 => out[2] = Frag(0, "ack", m, LoopW, "e")
    /\ N >= 1 => Len(out) >= 2

\* Requests have been read by a server with some, but not all, kinds
\* registered.
C4_Witness ==
    /\ N >= 1
    /\ m = {CmdGet}
    /\ Len(out) >= 4
    /\ pc = "read"

\* C5 as stated: an operation whose deadline has passed after its launch,
\* while it has no token, never enters the handler.
C5_ExpiredNeverRuns ==
    [][\A i \in 1..MaxOps :
          (i \in OpIds /\ ops[i].pc = "select" /\ ops[i].ctx = "expired")
              => ops'[i].pc # "run"]_vars

\* C5, amended: an operation that takes the ctx.Done() case never holds a
\* token nor runs the handler and writes only the one cancellation Response
\* with its request's ID; an operation that takes a token writes only its
\* handler's Response, also when others are cancelled.
C5_TimeoutBranchOnlyCancels ==
    \A i \in OpIds :
        LET begun == {k \in By(i) : out[k].part = "b"}
            ended == {k \in By(i) : out[k].part = "e"}
            want == IF ops[i].took THEN HandlerKind(ops[i].cmd) ELSE "cancel"
        IN  /\ \A k \in By(i) : out[k].kind = want /\ out[k].rid = ops[i].id
            /\ Cardinality(begun) <= 1
            /\ ops[i].pc = "done" => Cardinality(ended) = 1
            /\ ops[i].took <=> (ops[i].pc \in {"run", "runw", "post"}
                                \/ (ops[i].pc = "done" /\ want # "cancel"))

\* One operation was cancelled while waiting, and another one obtained a
\* token and had its handler's Response written after that cancellation.
C5_Witness ==
    \E i, j \in OpIds :
        /\ ~ops[i].took /\ ops[i].pc = "done"
        /\ ops[j].took /\ ops[j].pc = "done"
        /\ \E a \in By(i), b \in By(j) : a < b /\ out[b].kind = "handler"

\* C6: a failed top-level Decode is the last Decode of the session; the loop
\* then only waits for the launched operations and returns the error once
\* all of them are done, and the close handler is never run.
C6_DecodeFailureDrains ==
    /\ \A k \in DOMAIN consumed :
          (consumed[k].as = "req" /\ ~consumed[k].ok) => k = N
    /\ FailedTop => /\ pc \in {"errwait", "done"}
                    /\ CloseFrags = {}
                    /\ pc = "done" => result = "err" /\ AllOpsDone
    /\ result = "err" => FailedTop

\* serve has returned the decode error after waiting for an operation.
C6_Witness ==
    /\ FailedTop
    /\ pc = "done"
    /\ result = "err"
    /\ Len(ops) >= 1

\* The top-level Decode has met a value that is not valid JSON.
BadTop ==
    \E k \in DOMAIN consumed :
        consumed[k].as = "req" /\ consumed[k].val.kind = "bad"

\* C7 as stated: nothing is written to the stream once the invalid value has
\* been read.
C7_NothingWrittenAfterBad == [][BadTop => out' = out]_vars

\* C7, amended: once the invalid value has been read, the loop reads and
\* launches nothing more and writes nothing; the stream only grows by the
\* Responses of the operations launched before, and not at all once serve
\* has returned, which it does with the decode error.
C7_OnlyInFlightAfterBad ==
    [][BadTop =>
          /\ consumed' = consumed
          /\ Len(ops') = Len(ops)
          /\ pc' \in {"errwait", "done"}
          /\ \/ out' = out
             \/ /\ Len(out') = Len(out) + 1
                /\ SubSeq(out', 1, Len(out)) = out
                /\ out'[Len(out')].w \in OpIds
          /\ pc = "done" => out' = out /\ result = "err"]_vars

\* The invalid value has been read while an operation launched before it is
\* in the middle of writing its Response.
C7_Witness ==
    /\ BadTop
    /\ pc = "errwait"
    /\ \E i \in OpIds : ops[i].pc = "runw"

\* C8: a Request with a command outside get/put/close launches no operation
\* and gets exactly one Response, an error written by the loop itself; when
\* that is written the loop is back at Decode.
C8_UnknownCommandSync ==
    \A k \in DOMAIN consumed :
        (consumed[k].as = "req" /\ consumed[k].ok
         /\ consumed[k].val.cmd \notin allowedCommands) =>
            /\ \A i \in OpIds : ops[i].id # k
            /\ \A j \in Begins(k) \cup Ends(k) :
                  out[j].w = LoopW /\ out[j].kind = "unknown"
            /\ Cardinality(Begins(k)) <= 1
            /\ IF k = N /\ pc \in {"lwrite", "lwend"}
               THEN lw.rid = k /\ Ends(k) = {}
               ELSE Cardinality(Ends(k)) = 1
            /\ (k = N /\ pc \notin {"lwrite", "lwend"}) => pc = "read"

\* An unknown command was answered and the get read after it was answered
\* too.
C8_Witness ==
    /\ IsReq(1, CmdOther)
    /\ Cardinality(Ends(1)) = 1
    /\ IsReq(2, CmdGet)
    /\ Cardinality(Ends(2)) = 1

\* C9: at most one caller is inside the encode step, and on the stream every
\* Response is one contiguous message.
C9_NoInterleaving ==
    /\ Cardinality(Encoding) <= 1
    /\ \A k \in DOMAIN out :
          /\ (out[k].part = "b" /\ k < Len(out)) =>
                out[k + 1] = [out[k] EXCEPT !.part = "e"]
          /\ out[k].part = "e" =>
                k > 1 /\ out[k - 1] = [out[k] EXCEPT !.part = "b"]

\* The loop has a Response to write while a goroutine is encoding.
C9_Witness ==
    /\ pc = "lwrite"
    /\ mu \in OpIds

\* C10: after a put with BodySize > 0 exactly the next Decode reads the body
\* and the one after it reads a Request; after a put with BodySize 0 the next
\* Decode reads a Request and the operation is launched with an empty Body;
\* no other Decode reads a body.
C10_BodyFraming ==
    \A k \in DOMAIN consumed :
        /\ (IsReq(k, CmdPut) /\ consumed[k].val.size > 0 /\ k < N) =>
              /\ consumed[k + 1].as = "body"
              /\ k + 1 < N => consumed[k + 2].as = "req"
        /\ (IsReq(k, CmdPut) /\ consumed[k].val.size = 0) =>
              /\ k < N => consumed[k + 1].as = "req"
              /\ \E i \in OpIds : ops[i].id = k /\ ops[i].body = "empty"
        /\ consumed[k].as = "body" =>
              /\ k > 1
              /\ IsReq(k - 1, CmdPut)
              /\ consumed[k - 1].val.size > 0

\* A put, its body and the Request after the body have been decoded.
C10_Witness ==
    /\ N = 3
    /\ IsReq(1, CmdPut)
    /\ consumed[1].val.size > 0
    /\ consumed[2].as = "body"
    /\ consumed[2].ok
    /\ IsReq(3, CmdGet)


\* C11: a put whose body decodes to fewer bytes than its declared BodySize
\* is answered with an error, never as a successful store.
C11_ShortBodyFails ==
    \A i \in DOMAIN calls :
        (calls[i].cmd = CmdPut /\ calls[i].pc = "done"
         /\ Len(calls[i].body) < calls[i].size) => calls[i].resp.kind = "err"

\* Decode calls that read the body value of a put and failed.
FailedBodies == {k \in DOMAIN consumed : consumed[k].as = "body" /\ ~consumed[k].ok}

\* C12: a failed Decode of a put's body is scoped to that request: the loop
\* answers it with one error Response carrying the request's ID, launches no
\* operation for it, and the following Decode reads the next message of the
\* stream instead of ending the session.
C12_BodyFailureScoped ==
    \A k \in FailedBodies :
        /\ \A i \in OpIds : ops[i].id # k - 1
        /\ \A j \in Begins(k - 1) \cup Ends(k - 1) :
              out[j].w = LoopW /\ out[j].kind = "bodyerr"
        /\ Cardinality(Begins(k - 1)) <= 1
        /\ k < N => /\ Cardinality(Ends(k - 1)) = 1
                    /\ consumed[k + 1].as = "req"
                    /\ consumed[k + 1].val.kind # "none"

\* The invocation i ran from its start to its Response with no other
\* invocation in progress.
Alone(i) ==
    /\ calls[i].pc = "done"
    /\ calls[i].overlap = {}
    /\ \A j \in DOMAIN calls : i \notin calls[j].overlap

\* C13: a put answered with success and then a get of the same ActionID,
\* each run with no other invocation in progress and the get meeting no
\* failing system call: the get is answered with a hit whose Size is the
\* number of bytes of the put's body, whose OutputID is the put's, and whose
\* DiskPath holds the bytes of the put's body.
C13_PutGetRoundTrip ==
    \A i \in DOMAIN calls :
        (/\ i > 1
         /\ calls[i].cmd = CmdGet
         /\ Alone(i)
         /\ ~calls[i].fault
         /\ calls[i - 1].cmd = CmdPut
         /\ Alone(i - 1)
         /\ calls[i - 1].resp.kind = "ok"
         /\ calls[i - 1].action = calls[i].action) =>
            /\ calls[i].resp.kind = "hit"
            /\ calls[i].resp.size = Len(calls[i - 1].body)
            /\ calls[i].resp.output = calls[i - 1].output
            /\ calls[i].resp.path = calls[i - 1].resp.path
            /\ calls[i].resp.content = calls[i - 1].body

\* A put of one byte has been answered with success and the get after it
\* with a hit.
C13_Witness ==
    /\ Len(calls) >= 2
    /\ calls[1].cmd = CmdPut
    /\ calls[1].resp.kind = "ok"
    /\ calls[1].body = <<2>>
    /\ calls[2].cmd = CmdGet
    /\ Alone(2)
    /\ calls[2].resp.kind = "hit"

\* C14: a registration for a kind other than get, put or close panics and
\* leaves the registry as it was, a registration for one of the three does
\* not panic and registers the kind; the registered kinds are always among
\* get, put and close.
C14_OnlyAllowedRegistered ==
    /\ m \subseteq {CmdGet, CmdPut, CmdClose}
    /\ lastReg # NoReg =>
          IF lastReg.cmd \in {CmdGet, CmdPut, CmdClose}
          THEN ~lastReg.panicked /\ m = lastReg.before \cup {lastReg.cmd}
          ELSE lastReg.panicked /\ m = lastReg.before

\* A registration of an unsupported kind has panicked after two kinds were
\* registered.
C14_Witness ==
    /\ lastReg.cmd = CmdOther
    /\ lastReg.panicked
    /\ Cardinality(m) = 2

\* Events of a dispatch that runs the middleware mws around the handler of
\* cmd, first-registered outermost.
Onion(mws, cmd) ==
    [k \in 1..(2 * Len(mws) + 1) |->
        IF k <= Len(mws) THEN Ev("enter", mws[k])
        ELSE IF k = Len(mws) + 1 THEN Ev("handler", cmd)
        ELSE Ev("exit", mws[2 * Len(mws) + 2 - k])]

\* C15: a dispatch to a registered handler enters the middleware in the order
\* of their registration, runs the handler inside the last-registered one,
\* and leaves them in the reverse order.
C15_MiddlewareOrder ==
    (trace # NoDispatch /\ trace.events[1].what # "nohandler") =>
        trace.events = Onion(trace.mws, trace.cmd)

\* A dispatch through two different middleware.
C15_Witness ==
    /\ Len(trace.mws) = 2
    /\ trace.mws[1] # trace.mws[2]
    /\ Len(trace.events) = 5
    /\ trace.events[3].what = "handler"

\* The last fragment that writer c put on the stream.
LastBy(c) == out[CHOOSE k \in By(c) : \A j \in By(c) : j <= k]

\* C16: a WriteResponse whose Encode fails writes the fallback Response with
\* the ID of the original and returns; when the fallback fails too it logs
\* and returns; the caller can always go on to its return, and the lock is
\* held exactly from Lock to the return, whatever failed.
C16_EncodeFailureContained ==
    \A c \in WriterIds :
        LET st == callers[c] IN
        /\ (mu = c) <=> st.pc \in {"encode", "fallback", "log", "unlock"}
        /\ st.pc = "fallback" => ENABLED (\E r \in {"ok", "fail", "torn", "stored"} : WFallback(c, r))
        /\ st.pc = "log" => ENABLED WLog(c)
        /\ st.pc = "unlock" => ENABLED WUnlock(c)
        /\ st.pc \in {"log", "unlock", "ret"} =>
              /\ ~st.err1 =>
                    /\ By(c) # {}
                    /\ LastBy(c) = Frag(st.rid, "response", {}, c, "e")
              /\ (st.err1 /\ ~st.err2) =>
                    /\ By(c) # {}
                    /\ LastBy(c) = Frag(st.rid, "fallback", {}, c, "e")
              /\ (st.err2 /\ st.pc # "log") =>
                    \E k \in DOMAIN logged :
                        /\ logged[k] = [w |-> c, rid |-> st.rid]
                        /\ \A j \in DOMAIN logged : j > k => logged[j].w # c

\* One call has returned after writing the fallback for a Response that could
\* not be marshalled, another after both of its writes failed.
C16_Witness ==
    \E c, d \in WriterIds :
        /\ callers[c].pc = "ret" /\ callers[c].err1 /\ ~callers[c].err2
        /\ callers[d].pc = "ret" /\ callers[d].err2
        /\ mu = NoOwner

\* The operation i is launched by this step.
Launched(i) == Len(ops) < i /\ Len(ops') >= i

\* C17: the timeout of a request starts when it is launched: the deadline of
\* an operation has not passed at its launch, and a cancellation is chosen
\* only for an operation whose deadline passed after its launch.
C17_TimeoutStartsAtLaunch ==
    [][\A i \in 1..MaxOps :
          /\ Launched(i) => ops'[i].ctx = "live"
          /\ (i \in OpIds /\ ops[i].pc = "select" /\ ops'[i].pc = "cancelw")
                => ops[i].ctx = "expired"]_vars

\* The fragments of `out'` that this step adds.
Added == {k \in DOMAIN out' : k > Len(out)}

\* C18: while the handler of an operation runs, the passing of its deadline
\* changes nothing but the context: the goroutine stays where it is, keeps
\* its token and nothing is written; and with the deadline passed the
\* goroutine only goes on through its handler's Response to its return,
\* where alone the token is given back; no cancellation is written for it.
C18_NoPreemption ==
    [][\A i \in 1..MaxOps :
          (i \in OpIds /\ ops[i].pc \in {"run", "runw", "post"}) =>
              /\ (ops[i].ctx = "live" /\ ops'[i].ctx = "expired") =>
                    /\ ops'[i].pc = ops[i].pc
                    /\ sem' = sem
                    /\ out' = out
              /\ <<ops[i].pc, ops'[i].pc>> \in
                    {<<"run", "run">>, <<"run", "runw">>, <<"runw", "runw">>,
                     <<"runw", "post">>, <<"post", "post">>, <<"post", "done">>}
              /\ ops'[i].pc # "done" => ops'[i].took /\ sem' >= 1
              /\ \A k \in Added :
                    out'[k].rid = ops[i].id => out'[k].kind = HandlerKind(ops[i].cmd)]_vars

\* The deadline of an operation has passed and its handler's Response is
\* complete on the stream, the token still held.
C18_Witness ==
    \E i \in OpIds :
        /\ ops[i].pc = "post"
        /\ ops[i].ctx = "expired"
        /\ sem >= 1
        /\ \E k \in Ends(ops[i].id) : out[k].kind = "handler"

\* C19: the tokens in s.sem are exactly those of the operations inside
\* handleRequest: an operation holds one from its select to its return and
\* no other does, so the channel is empty when no handler runs.
C19_TokensAreRunningHandlers ==
    /\ sem = Cardinality(Running)
    /\ Running = {i \in OpIds : ops[i].took /\ ops[i].pc # "done"}
    /\ \A i \in OpIds : ops[i].pc \in {"select", "cancelw"} => ~ops[i].took

\* Every operation launched has returned, one after running its handler and
\* one after timing out, and the channel is empty again.
C19_Witness ==
    /\ Len(ops) = MaxOps
    /\ AllOpsDone
    /\ sem = 0
    /\ \E i, j \in OpIds : ops[i].took /\ ~ops[j].took

\* C20: the loop, back at Decode, is never held up by the token channel:
\* with every token held it still reads a get or a put and launches it, and
\* reads and answers an unknown command.
C20_LoopNeverWaitsForToken ==
    (pc = "read" /\ ~decErr /\ CanRead /\ sem = semCap) =>
        /\ ENABLED ReadRequest(CmdOther, 0)
        /\ CanLaunch => /\ ENABLED ReadRequest(CmdGet, 0)
                        /\ ENABLED ReadRequest(CmdPut, 0)
                        /\ ENABLED ReadRequest(CmdPut, 1)

\* With every token held by a running handler, an operation launched later
\* waits in its select while the loop is back at Decode.
C20_Witness ==
    /\ pc = "read"
    /\ sem = semCap
    /\ Cardinality(Running) = semCap
    /\ \E i \in OpIds : ops[i].pc = "select" /\ \E j \in Running : j < i

\* C21: a goroutine writing the handler map (a registration) or the
\* middleware list (Use) never does so while another goroutine reads or
\* writes the same object: the dispatch lookup, the reading of the
\* middleware list during dispatch, knownCommands, another registration or
\* another Use.
C21_RegistryAccessLocked ==
    \A t, u \in RegIds :
        t # u =>
            /\ ~(WritingM(t) /\ AccessingM(u))
            /\ ~(WritingMw(t) /\ AccessingMw(u))

\* C22: an invocation of HandleGet or HandlePut that is over has called the
\* ResponseWriter exactly once, with a Response that carries the ID of its
\* Request, whatever the request's ActionID and OutputID and whatever
\* failed.
C22_HandlersRespondOnce ==
    \A i \in DOMAIN calls :
        calls[i].pc \in {"done", "panic"} =>
            /\ calls[i].writes = 1
            /\ calls[i].resp.id = calls[i].id

\* The close handler (or handleRequest itself when none is registered) is
\* running on the loop's goroutine.
CloseHandling == pc \in {"lwrite", "lwend"} /\ lw.next = "done"

\* C23: once a close request has been read the session ends with serve
\* returning nil (handler invocations return, timers fire and goroutines
\* are scheduled); while the close handler runs no token is held, no get or
\* put handler is running and every launched operation is over.
C23_CloseTerminates ==
    /\ (pc = "closewait") ~> (pc = "done" /\ result = "nil")
    /\ [](CloseHandling => sem = 0 /\ Running = {} /\ AllOpsDone)

\* The session has ended with nil after a close, with a launched operation
\* that never obtained a token and ended by its timeout.
C23_Witness ==
    /\ pc = "done"
    /\ result = "nil"
    /\ \E i \in OpIds : ~ops[i].took /\ ops[i].pc = "done"

====
